---- MODULE Spec2Model ----
(***************************************************************************)
(* Chatbot Flow Builder: the graph editor (FlowBuilder in App.jsx), its    *)
(* connection policy, its save validation and the SaveButton handshake.    *)
(*                                                                         *)
(* A node is [id, type, data |-> [label]]; its canvas position is not      *)
(* modelled.  An edge is [id, source, target].  Node ids are the decimal   *)
(* strings that String(_uid++) produces.                                   *)
(***************************************************************************)
EXTENDS Naturals, Sequences, FiniteSets, TLC

VARIABLES
    nodes,          \* useNodesState: the node array, in insertion order
    edges,          \* useEdgesState: the edge array, in insertion order
    selectedNode,   \* useState(null): None, or <<copy of the clicked node>>
    uid,            \* the module-level counter _uid
    toast,          \* useState(null): None, or <<[type, msg]>>
    toastTimers,    \* pending setTimeout(() => setToast(null), 4000) callbacks
    status,         \* SaveButton's status
    resolved,       \* the values handed to the current attempt's resolve()
    resetTimers,    \* pending setTimeout(() => setStatus('idle'), 1800) callbacks
    lastOp          \* observation only: how the handler that ran last ended,
                    \* "done", "connected", "nodeDeleted", "edgeRemoved", or the name of
                    \* the early return it took

graphVars == <<nodes, edges, selectedNode, uid>>
saveVars  == <<toast, toastTimers, status, resolved, resetTimers>>
vars      == <<nodes, edges, selectedNode, uid, toast, toastTimers, status,
               resolved, resetTimers, lastOp>>

(***************************************************************************)
(* Bounds of the model.                                                    *)
(***************************************************************************)
\* The id counter allocates the ids below MaxUid only (the seed node's included).
MaxUid == 4
\* Texts a user may type into a node.
Labels == {""}
\* At most this many toast timers are pending together.
MaxToastTimers == 2
\* Snapshots handed to the pure functions: ids "1".."SnapIds", at most
\* SnapEdges edges.
SnapIds == 3
SnapEdges == 4

(***************************************************************************)
(* Program constants.                                                      *)
(***************************************************************************)
None == <<>>

\* let _uid = 2
FirstUid == 2

initialNodes ==
    << [id |-> "1", type |-> "textNode", data |-> [label |-> "Hello! How can I help you today?"]] >>

initialEdges == <<>>

\* Sidebar's palette cards.
NODE_TYPES ==
    << [type |-> "textNode",      available |-> TRUE],
       [type |-> "imageNode",     available |-> FALSE],
       [type |-> "conditionNode", available |-> FALSE],
       [type |-> "questionNode",  available |-> FALSE] >>

(***************************************************************************)
(* Array helpers (Array.prototype.filter / map / some).                    *)
(***************************************************************************)
Range(s) == {s[i] : i \in DOMAIN s}

Ids(nds) == [i \in DOMAIN nds |-> nds[i].id]

(***************************************************************************)
(* ConnectionPolicy.                                                       *)
(***************************************************************************)
\* Variants of isValidConnection with one rule lost or narrowed.
isValidConnection_noOutgoingRule(eds, connection) ==
    IF connection.source = connection.target THEN FALSE ELSE TRUE

isValidConnection_noSelfLoopRule(eds, connection) ==
    IF \E i \in DOMAIN eds : eds[i].source = connection.source THEN FALSE ELSE TRUE

isValidConnection_duplicateOnly(eds, connection) ==
    IF \E i \in DOMAIN eds : /\ eds[i].source = connection.source
                             /\ eds[i].target = connection.target
    THEN FALSE
    ELSE IF connection.source = connection.target THEN FALSE
    ELSE TRUE

isValidConnection_targetHasIncoming(eds, connection) ==
    IF \E i \in DOMAIN eds : \/ eds[i].source = connection.source
                             \/ eds[i].target = connection.target
    THEN FALSE
    ELSE IF connection.source = connection.target THEN FALSE
    ELSE TRUE

\* The outgoing check first, then the self-loop check.
isValidConnection(eds, connection) ==
    LET sourceHasOutgoing == \E i \in DOMAIN eds : eds[i].source = connection.source
    IN  IF sourceHasOutgoing THEN FALSE
        ELSE IF connection.source = connection.target THEN FALSE
        ELSE TRUE

\* React Flow's id for an edge drawn between the two handles of
\* CustomTextNode (ids "source" and "target").
getEdgeId(params) ==
    "reactflow__edge-" \o params.source \o "source" \o "-" \o params.target \o "target"

\* React Flow's addEdge: appends, "while avoiding duplicates".
addEdge(params, eds) ==
    IF \E i \in DOMAIN eds :
           eds[i].source = params.source /\ eds[i].target = params.target
    THEN eds
    ELSE Append(eds, [id |-> getEdgeId(params), source |-> params.source,
                      target |-> params.target])

(***************************************************************************)
(* The id generator.                                                       *)
(***************************************************************************)
\* An id generator that numbers a node by the length of the node array.
nextId_fromLength(u) == ToString(Len(nodes) + 1)

nextId(u) == ToString(u)

(***************************************************************************)
(* Initial state.                                                          *)
(***************************************************************************)
Init ==
    /\ nodes = initialNodes
    /\ edges = initialEdges
    /\ selectedNode = None
    /\ uid = FirstUid
    /\ toast = None
    /\ toastTimers = 0
    /\ status = "idle"
    /\ resolved = <<>>
    /\ resetTimers = 0
    /\ lastOp = "init"

(***************************************************************************)
(* Snapshots: the inputs of the pure functions isValidConnection and       *)
(* handleSave.  Any list of distinct nodes, in any order, and any set of   *)
(* edges between ids, admitted by the connection policy or not, dangling   *)
(* or not.                                                                 *)
(***************************************************************************)
SnapIdSet == {ToString(i) : i \in 1..SnapIds}

textNode(id) ==
    [id |-> id, type |-> "textNode", data |-> [label |-> "New message " \o id]]

SnapNodeLists ==
    LET idLists == UNION {[1..n -> SnapIdSet] : n \in 0..SnapIds}
        distinct(l) == \A i, j \in DOMAIN l : i # j => l[i] # l[j]
    IN  {[i \in DOMAIN l |-> textNode(l[i])] : l \in {m \in idLists : distinct(m)}}

RECURSIVE SetToSeq(_)
SetToSeq(S) ==
    IF S = {} THEN <<>>
    ELSE LET x == CHOOSE y \in S : TRUE IN <<x>> \o SetToSeq(S \ {x})

\* The ids numbered by S, in increasing order.
RECURSIVE SetToSeqOrdered(_)
SetToSeqOrdered(S) ==
    IF S = {} THEN <<>>
    ELSE LET m == CHOOSE x \in S : \A y \in S : x <= y
         IN  << ToString(m) >> \o SetToSeqOrdered(S \ {m})

SnapEdgeLists ==
    LET conns == {[source |-> s, target |-> t] : s \in SnapIdSet, t \in SnapIdSet}
        edge(c) == [id |-> getEdgeId(c), source |-> c.source, target |-> c.target]
    IN  {SetToSeq({edge(c) : c \in K}) :
            K \in {L \in SUBSET conns : Cardinality(L) <= SnapEdges}}

\* Any snapshot, with nothing selected and no save attempt under way.
InitSnapshot ==
    /\ nodes \in SnapNodeLists
    /\ edges \in SnapEdgeLists
    /\ selectedNode = None
    /\ uid = SnapIds + 1
    /\ toast = None
    /\ toastTimers = 0
    /\ status = "idle"
    /\ resolved = <<>>
    /\ resetTimers = 0
    /\ lastOp = "init"

\* The snapshots that hold every node, in the order of their ids: the
\* connection policy reads the edges only.
InitPolicy ==
    /\ InitSnapshot
    /\ nodes = [i \in 1..SnapIds |-> textNode(ToString(i))]

\* The continuation of SaveButton.handleClick's await is a microtask: it runs
\* before any other event is dispatched.
MicrotaskPending == status = "saving" /\ resolved # <<>>

(***************************************************************************)
(* Graph editing.                                                          *)
(***************************************************************************)
\* The user releases a connection drag from s's source handle on t's target
\* handle: React Flow calls isValidConnection and, when it accepts, onConnect.
onConnect(params) ==
    edges' = addEdge(params, edges)

\* onConnect called on its own, as the edge store's entry point: whoever
\* calls it has not asked isValidConnection, and the ids need not be ids of
\* nodes.  The bound on the edge array keeps the state space finite.
onConnectDirect(s, t) ==
    /\ ~MicrotaskPending
    /\ Len(edges) < SnapEdges
    /\ onConnect([source |-> s, target |-> t])
    /\ lastOp' = "connected"
    /\ UNCHANGED <<nodes, selectedNode, uid>>
    /\ UNCHANGED saveVars

\* ConnectAttempt with isValidConnection not wired to the canvas.
ConnectAttempt_unchecked(s, t) ==
    /\ ~MicrotaskPending
    /\ onConnect([source |-> s, target |-> t])
    /\ lastOp' = "connected"
    /\ UNCHANGED <<nodes, selectedNode, uid>>
    /\ UNCHANGED saveVars

ConnectAttempt(s, t) ==
    /\ ~MicrotaskPending
    /\ LET connection == [source |-> s, target |-> t]
       IN  IF isValidConnection(edges, connection)
           THEN /\ onConnect(connection)
                /\ lastOp' = "connected"
           ELSE /\ edges' = edges
                /\ lastOp' = "connectRejected"
    /\ UNCHANGED <<nodes, selectedNode, uid>>
    /\ UNCHANGED saveVars

\* onDragStart that writes the type of any card, available or not.
onDragStart_anyCard(card) == card.type

\* Sidebar's DraggableNode.onDragStart: the type the drag carries ("" when
\* the card is unavailable and nothing is written to dataTransfer).
onDragStart(card) == IF ~card.available THEN "" ELSE card.type

\* A palette card is dragged onto the canvas.
onDrop(type) ==
    /\ ~MicrotaskPending
    /\ IF type = ""
       THEN /\ UNCHANGED <<nodes, uid>>
            /\ lastOp' = "dropIgnored"
       ELSE /\ uid < MaxUid
            /\ LET id == nextId(uid)
                   newNode == [id |-> id, type |-> type,
                               data |-> [label |-> "New message " \o id]]
               IN  nodes' = Append(nodes, newNode)
            /\ uid' = uid + 1
            /\ lastOp' = "done"
    /\ UNCHANGED <<edges, selectedNode>>
    /\ UNCHANGED saveVars

\* React Flow's handling of the delete key for a selected node: the edges
\* connected to it are removed through onEdgesChange and the node through
\* onNodesChange.
\* removeNode that cuts the array at the node: everything after it goes too.
removeNode_truncate(nds, id) ==
    LET at == CHOOSE i \in DOMAIN nds : nds[i].id = id
    IN  IF \E i \in DOMAIN nds : nds[i].id = id
        THEN SubSeq(nds, 1, at - 1) ELSE nds

removeNode(nds, id) ==
    LET Keep(n) == n.id # id IN SelectSeq(nds, Keep)

\* removeConnectedEdges that follows outgoing edges only.
removeConnectedEdges_sourceOnly(eds, id) ==
    LET Keep(e) == e.source # id IN SelectSeq(eds, Keep)

\* removeConnectedEdges that leaves the deleted node's edges in place.
removeConnectedEdges_noCascade(eds, id) == eds

removeConnectedEdges(eds, id) ==
    LET Keep(e) == e.source # id /\ e.target # id IN SelectSeq(eds, Keep)

DeleteKeyNode(id) ==
    /\ ~MicrotaskPending
    /\ nodes' = removeNode(nodes, id)
    /\ edges' = removeConnectedEdges(edges, id)
    /\ lastOp' = "nodeDeleted"
    /\ UNCHANGED <<selectedNode, uid>>
    /\ UNCHANGED saveVars

\* removeEdge that removes every edge into the target of the edge named.
removeEdge_byTarget(eds, id) ==
    LET hit == {eds[i].target : i \in {j \in DOMAIN eds : eds[j].id = id}}
        Keep(e) == e.target \notin hit
    IN  SelectSeq(eds, Keep)

\* eds.filter((e) => e.id !== edge.id): onEdgeDoubleClick, and React Flow's
\* handling of the delete key for a selected edge.
removeEdge(eds, id) ==
    LET Keep(e) == e.id # id IN SelectSeq(eds, Keep)

onEdgeDoubleClick(edge) ==
    /\ ~MicrotaskPending
    /\ edges' = removeEdge(edges, edge.id)
    /\ lastOp' = "edgeRemoved"
    /\ UNCHANGED <<nodes, selectedNode, uid>>
    /\ UNCHANGED saveVars

DeleteKeyEdge(edge) ==
    /\ ~MicrotaskPending
    /\ edges' = removeEdge(edges, edge.id)
    /\ lastOp' = "edgeRemoved"
    /\ UNCHANGED <<nodes, selectedNode, uid>>
    /\ UNCHANGED saveVars

(***************************************************************************)
(* Selection and label editing.                                            *)
(***************************************************************************)
onNodeClick(node) ==
    /\ ~MicrotaskPending
    /\ selectedNode' = <<node>>
    /\ lastOp' = "done"
    /\ UNCHANGED <<nodes, edges, uid>>
    /\ UNCHANGED saveVars

\* Also SettingsPanel's onClose.
onPaneClick ==
    /\ ~MicrotaskPending
    /\ selectedNode' = None
    /\ lastOp' = "done"
    /\ UNCHANGED <<nodes, edges, uid>>
    /\ UNCHANGED saveVars

setLabel(n, newLabel) == [n EXCEPT !.data.label = newLabel]

\* onNodeDataChange that updates the node array and not the focused copy.
onNodeDataChange_nodesOnly(id, newLabel) ==
    /\ nodes' = [i \in DOMAIN nodes |->
                    IF nodes[i].id = id THEN setLabel(nodes[i], newLabel) ELSE nodes[i]]
    /\ selectedNode' = selectedNode

onNodeDataChange(id, newLabel) ==
    /\ nodes' = [i \in DOMAIN nodes |->
                    IF nodes[i].id = id THEN setLabel(nodes[i], newLabel) ELSE nodes[i]]
    /\ selectedNode' = [i \in DOMAIN selectedNode |->
                    IF selectedNode[i].id = id THEN setLabel(selectedNode[i], newLabel)
                    ELSE selectedNode[i]]

\* CustomTextNode's inline textarea.
InlineEdit(id, newLabel) ==
    /\ ~MicrotaskPending
    /\ onNodeDataChange(id, newLabel)
    /\ lastOp' = "done"
    /\ UNCHANGED <<edges, uid>>
    /\ UNCHANGED saveVars

\* SettingsPanel's textarea, shown while a node is selected.
PanelEdit(newLabel) ==
    /\ ~MicrotaskPending
    /\ selectedNode # None
    /\ onNodeDataChange(selectedNode[1].id, newLabel)
    /\ lastOp' = "done"
    /\ UNCHANGED <<edges, uid>>
    /\ UNCHANGED saveVars

(***************************************************************************)
(* FlowValidator: handleSave.                                              *)
(***************************************************************************)
\* multiOutgoing that stops at the first offender.
multiOutgoing_firstOnly(nds, eds) ==
    LET Test(n) == Cardinality({i \in DOMAIN eds : eds[i].source = n.id}) > 1
        all == SelectSeq(nds, Test)
    IN  IF all = <<>> THEN all ELSE << all[1] >>

\* nodes.filter((n) => edges.filter((e) => e.source === n.id).length > 1)
multiOutgoing(nds, eds) ==
    LET Test(n) == Cardinality({i \in DOMAIN eds : eds[i].source = n.id}) > 1
    IN  SelectSeq(nds, Test)

\* disconnected that looks at the edges' sources.
disconnected_bySource(nds, eds) ==
    LET Test(n) == ~(\E i \in DOMAIN eds : eds[i].source = n.id)
    IN  SelectSeq(nds, Test)

\* nodes.filter((n) => !edges.some((e) => e.target === n.id))
disconnected(nds, eds) ==
    LET Test(n) == ~(\E i \in DOMAIN eds : eds[i].target = n.id)
    IN  SelectSeq(nds, Test)

\* The toast texts.  A text is kept as its template and the values
\* interpolated into it.
emptyMsg == [text |-> "Canvas is empty"]

multiOutgoingMsg(offenders) ==
    [text   |-> "have more than one outgoing connection",
     plural |-> Len(offenders) > 1,
     ids    |-> Ids(offenders)]

disconnectedMsg(orphans) ==
    [text  |-> "nodes have no incoming connections",
     count |-> Len(orphans)]

savedMsg(nds, eds) ==
    [text |-> "Flow saved!",
     nodeCount |-> Len(nds), nodePlural |-> Len(nds) # 1,
     edgeCount |-> Len(eds), edgePlural |-> Len(eds) # 1]

\* fail that shows its error toast and resolves true all the same.
fail_resolvesTrue(msg) == [toast |-> [type |-> "error", msg |-> msg], resolve |-> TRUE]

\* fail and pass: the toast shown and the value handed to resolve.
fail(msg) == [toast |-> [type |-> "error", msg |-> msg], resolve |-> FALSE]

pass(msg) == [toast |-> [type |-> "success", msg |-> msg], resolve |-> TRUE]

\* handleSave without its empty-canvas guard.
handleSave_noEmptyGuard(nds, eds) ==
    IF Len(multiOutgoing(nds, eds)) > 0
         THEN << fail(multiOutgoingMsg(multiOutgoing(nds, eds))) >>
    ELSE IF Len(nds) > 1 /\ Len(disconnected(nds, eds)) > 1
         THEN << fail(disconnectedMsg(disconnected(nds, eds))) >>
    ELSE << pass(savedMsg(nds, eds)) >>

\* handleSave that allows no node without an incoming edge.
handleSave_noRootAllowed(nds, eds) ==
    IF Len(nds) = 0 THEN << fail(emptyMsg) >>
    ELSE IF Len(multiOutgoing(nds, eds)) > 0
         THEN << fail(multiOutgoingMsg(multiOutgoing(nds, eds))) >>
    ELSE IF Len(nds) > 1 /\ Len(disconnected(nds, eds)) > 0
         THEN << fail(disconnectedMsg(disconnected(nds, eds))) >>
    ELSE << pass(savedMsg(nds, eds)) >>

\* handleSave that wants exactly one node without an incoming edge.
handleSave_exactlyOneRoot(nds, eds) ==
    IF Len(nds) = 0 THEN << fail(emptyMsg) >>
    ELSE IF Len(multiOutgoing(nds, eds)) > 0
         THEN << fail(multiOutgoingMsg(multiOutgoing(nds, eds))) >>
    ELSE IF Len(nds) > 1 /\ Len(disconnected(nds, eds)) # 1
         THEN << fail(disconnectedMsg(disconnected(nds, eds))) >>
    ELSE << pass(savedMsg(nds, eds)) >>

\* handleSave that validates only while no toast is up, and passes otherwise.
handleSave_skipWhileToast(nds, eds) ==
    IF toast # None THEN << pass(savedMsg(nds, eds)) >>
    ELSE IF Len(nds) = 0 THEN << fail(emptyMsg) >>
    ELSE IF Len(multiOutgoing(nds, eds)) > 0
         THEN << fail(multiOutgoingMsg(multiOutgoing(nds, eds))) >>
    ELSE IF Len(nds) > 1 /\ Len(disconnected(nds, eds)) > 1
         THEN << fail(disconnectedMsg(disconnected(nds, eds))) >>
    ELSE << pass(savedMsg(nds, eds)) >>

\* handleSave whose empty-canvas branch does not return after fail(): the
\* rules that follow find nothing wrong and pass() is called too.
handleSave_missingReturn(nds, eds) ==
    IF Len(nds) = 0 THEN << fail(emptyMsg), pass(savedMsg(nds, eds)) >>
    ELSE IF Len(multiOutgoing(nds, eds)) > 0
         THEN << fail(multiOutgoingMsg(multiOutgoing(nds, eds))) >>
    ELSE IF Len(nds) > 1 /\ Len(disconnected(nds, eds)) > 1
         THEN << fail(disconnectedMsg(disconnected(nds, eds))) >>
    ELSE << pass(savedMsg(nds, eds)) >>

\* handleSave with the root count checked before the out-degree.
handleSave_rootCountFirst(nds, eds) ==
    IF Len(nds) = 0 THEN << fail(emptyMsg) >>
    ELSE IF Len(nds) > 1 /\ Len(disconnected(nds, eds)) > 1
         THEN << fail(disconnectedMsg(disconnected(nds, eds))) >>
    ELSE IF Len(multiOutgoing(nds, eds)) > 0
         THEN << fail(multiOutgoingMsg(multiOutgoing(nds, eds))) >>
    ELSE << pass(savedMsg(nds, eds)) >>

\* The calls of fail / pass that handleSave makes on (nds, eds), in order.
handleSave(nds, eds) ==
    IF Len(nds) = 0 THEN << fail(emptyMsg) >>
    ELSE IF Len(multiOutgoing(nds, eds)) > 0
         THEN << fail(multiOutgoingMsg(multiOutgoing(nds, eds))) >>
    ELSE IF Len(nds) > 1 /\ Len(disconnected(nds, eds)) > 1
         THEN << fail(disconnectedMsg(disconnected(nds, eds))) >>
    ELSE << pass(savedMsg(nds, eds)) >>

(***************************************************************************)
(* SaveButton and the toast.                                               *)
(***************************************************************************)
\* showToast for each call in turn: the last toast stays, every call starts
\* a 4 s timer.
showToasts(calls) ==
    /\ toast' = IF calls = <<>> THEN toast ELSE << calls[Len(calls)].toast >>
    /\ toastTimers' = toastTimers + Len(calls)

\* handleClick whose save attempt also drops the focus.
handleClick_dropsFocus ==
    /\ ~MicrotaskPending
    /\ IF status # "idle"
       THEN /\ UNCHANGED saveVars
            /\ UNCHANGED selectedNode
            /\ lastOp' = "clickIgnored"
       ELSE /\ toastTimers < MaxToastTimers
            /\ status' = "saving"
            /\ LET calls == handleSave(nodes, edges)
               IN  /\ showToasts(calls)
                   /\ resolved' = [i \in DOMAIN calls |-> calls[i].resolve]
            /\ UNCHANGED resetTimers
            /\ selectedNode' = None
            /\ lastOp' = "done"
    /\ UNCHANGED <<nodes, edges, uid>>

\* handleClick without its guard on the status.
handleClick_noDebounce ==
    /\ ~MicrotaskPending
    /\ toastTimers < MaxToastTimers
    /\ status' = "saving"
    /\ LET calls == handleSave(nodes, edges)
       IN  /\ showToasts(calls)
           /\ resolved' = [i \in DOMAIN calls |-> calls[i].resolve]
    /\ UNCHANGED resetTimers
    /\ lastOp' = "done"
    /\ UNCHANGED graphVars

\* SaveButton.handleClick up to its await, handleSave included.
handleClick ==
    /\ ~MicrotaskPending
    /\ IF status # "idle"
       THEN /\ UNCHANGED saveVars
            /\ lastOp' = "clickIgnored"
       ELSE /\ toastTimers < MaxToastTimers
            /\ status' = "saving"
            /\ LET calls == handleSave(nodes, edges)
               IN  /\ showToasts(calls)
                   /\ resolved' = [i \in DOMAIN calls |-> calls[i].resolve]
            /\ UNCHANGED resetTimers
            /\ lastOp' = "done"
    /\ UNCHANGED graphVars

\* handleClick after its await, going straight back to idle when the
\* validation passed.
AwaitResume_idleOnPass ==
    /\ MicrotaskPending
    /\ LET passed == resolved[1]
       IN  status' = IF passed THEN "idle" ELSE "error"
    /\ resetTimers' = resetTimers + 1
    /\ resolved' = <<>>
    /\ lastOp' = "done"
    /\ UNCHANGED <<toast, toastTimers>>
    /\ UNCHANGED graphVars

\* handleClick after its await, without the timer that resets the button.
AwaitResume_noResetTimer ==
    /\ MicrotaskPending
    /\ LET passed == resolved[1]
       IN  status' = IF passed THEN "success" ELSE "error"
    /\ resolved' = <<>>
    /\ lastOp' = "done"
    /\ UNCHANGED <<toast, toastTimers, resetTimers>>
    /\ UNCHANGED graphVars

\* handleClick after its await: the promise took the first value resolved.
AwaitResume ==
    /\ MicrotaskPending
    /\ LET passed == resolved[1]
       IN  status' = IF passed THEN "success" ELSE "error"
    /\ resetTimers' = resetTimers + 1
    /\ resolved' = <<>>
    /\ lastOp' = "done"
    /\ UNCHANGED <<toast, toastTimers>>
    /\ UNCHANGED graphVars

\* setTimeout(() => setStatus('idle'), 1800)
ResetTimerFire ==
    /\ ~MicrotaskPending
    /\ resetTimers > 0
    /\ status' = "idle"
    /\ resetTimers' = resetTimers - 1
    /\ lastOp' = "done"
    /\ UNCHANGED <<toast, toastTimers, resolved>>
    /\ UNCHANGED graphVars

\* setTimeout(() => setToast(null), 4000).  The oldest pending timer fires
\* first, and an attempt's 4 s toast timer fires after its 1.8 s reset timer:
\* the one pending timer of an attempt still in progress cannot fire yet.
ToastTimerFire ==
    /\ ~MicrotaskPending
    /\ \/ toastTimers > 1
       \/ toastTimers = 1 /\ status = "idle"
    /\ toast' = None
    /\ toastTimers' = toastTimers - 1
    /\ lastOp' = "done"
    /\ UNCHANGED <<status, resolved, resetTimers>>
    /\ UNCHANGED graphVars

(***************************************************************************)
(* Specifications.                                                         *)
(***************************************************************************)
\* Changes of the graph's structure and of its labels.
GraphNext ==
    \/ \E s \in Range(Ids(nodes)), t \in Range(Ids(nodes)) : ConnectAttempt(s, t)
    \/ \E card \in Range(NODE_TYPES) : onDrop(onDragStart(card))
    \/ \E id \in Range(Ids(nodes)) : DeleteKeyNode(id)
    \/ \E edge \in Range(edges) : onEdgeDoubleClick(edge)
    \/ \E edge \in Range(edges) : DeleteKeyEdge(edge)
    \/ \E id \in Range(Ids(nodes)), l \in Labels : InlineEdit(id, l)

FocusNext ==
    \/ \E node \in Range(nodes) : onNodeClick(node)
    \/ onPaneClick
    \/ \E l \in Labels : PanelEdit(l)

SaveNext ==
    \/ handleClick
    \/ AwaitResume
    \/ ResetTimerFire
    \/ ToastTimerFire

Next == GraphNext \/ FocusNext \/ SaveNext

\* The whole editor.
Spec == Init /\ [][Next]_vars

\* The editor's graph operations alone, from the seed graph.
SpecGraph == Init /\ [][GraphNext]_vars

\* The life of the nodes and the focus on them: drops, deletions, relabels,
\* clicks on a node and on the pane.  No edge is drawn.
NodeFocusNext ==
    \/ \E card \in Range(NODE_TYPES) : onDrop(onDragStart(card))
    \/ \E id \in Range(Ids(nodes)) : DeleteKeyNode(id)
    \/ \E id \in Range(Ids(nodes)), l \in Labels : InlineEdit(id, l)
    \/ FocusNext

SpecFocus == Init /\ [][NodeFocusNext]_vars

\* Connection attempts on any edge list.
PolicyNext ==
    \E s \in Range(Ids(nodes)), t \in Range(Ids(nodes)) : ConnectAttempt(s, t)

SpecPolicy == InitPolicy /\ [][PolicyNext]_vars

\* Calls of onConnect on the seed graph, with ids of nodes and other ids.
StoreNext == \E s \in SnapIdSet, t \in SnapIdSet : onConnectDirect(s, t)

SpecStore == Init /\ [][StoreNext]_vars

\* One save attempt on any snapshot: SaveButton.handleClick, before and after
\* its await.
ValidateNext ==
    \/ handleClick
    \/ AwaitResume

SpecValidate == InitSnapshot /\ [][ValidateNext]_vars

\* One save attempt on snapshots over one id more and two edges fewer than
\* InitSnapshot's, the nodes in the order of their ids: room for a node of
\* out-degree 2 beside two nodes without an incoming edge.
WideIdSet == {ToString(i) : i \in 1..(SnapIds + 1)}

WideNodeLists ==
    {[i \in DOMAIN l |-> textNode(l[i])] :
        l \in {SetToSeqOrdered(S) : S \in SUBSET (1..(SnapIds + 1))}}

WideEdgeLists ==
    LET conns == {[source |-> a, target |-> b] : a \in WideIdSet, b \in WideIdSet}
        edge(c) == [id |-> getEdgeId(c), source |-> c.source, target |-> c.target]
    IN  {SetToSeq({edge(c) : c \in K}) :
            K \in {L \in SUBSET conns : Cardinality(L) <= SnapEdges - 2}}

InitWide ==
    /\ nodes \in WideNodeLists
    /\ edges \in WideEdgeLists
    /\ selectedNode = None
    /\ uid = SnapIds + 2
    /\ toast = None
    /\ toastTimers = 0
    /\ status = "idle"
    /\ resolved = <<>>
    /\ resetTimers = 0
    /\ lastOp = "init"

SpecWide == InitWide /\ [][ValidateNext]_vars

\* Save attempts one after another on a graph nobody edits meanwhile, with
\* the timers each attempt leaves behind.  The node array is in the order of
\* its ids, as drops build it; the edges, of any shape, join nodes of the
\* array; a node may be focused.
InitSave ==
    /\ nodes \in {l \in SnapNodeLists :
                    \A i, j \in DOMAIN l :
                        i < j => \E a, b \in 1..SnapIds :
                                    /\ a < b
                                    /\ l[i].id = ToString(a)
                                    /\ l[j].id = ToString(b)}
    /\ edges \in {l \in SnapEdgeLists :
                    \A i \in DOMAIN l :
                        /\ l[i].source \in Range(Ids(nodes))
                        /\ l[i].target \in Range(Ids(nodes))}
    /\ selectedNode \in {None} \cup {<< n >> : n \in Range(nodes)}
    /\ uid = SnapIds + 1
    /\ toast = None
    /\ toastTimers = 0
    /\ status = "idle"
    /\ resolved = <<>>
    /\ resetTimers = 0
    /\ lastOp = "init"

SpecSave == InitSave /\ [][SaveNext]_vars

\* Save attempts with their scheduling, no node focused: the continuation
\* of an await whose promise is resolved runs as a microtask, and a timer
\* that was started fires.
InitLive == InitSave /\ selectedNode = None

SpecLive ==
    /\ InitLive
    /\ [][SaveNext]_vars
    /\ WF_vars(AwaitResume)
    /\ WF_vars(ResetTimerFire)

(***************************************************************************)
(* Vocabulary of the properties, stated on the graph itself.               *)
(***************************************************************************)
NodeIdSet == Range(Ids(nodes))

OutDegree(id) == Cardinality({i \in DOMAIN edges : edges[i].source = id})

InDegree(id) == Cardinality({i \in DOMAIN edges : edges[i].target = id})

Offenders == {id \in NodeIdSet : OutDegree(id) > 1}

Roots == {id \in NodeIdSet : InDegree(id) = 0}

\* The position of a node id in the node array.
Position(id) == CHOOSE i \in DOMAIN nodes : nodes[i].id = id

\* handleSave has just run on the current (nodes, edges): its toast is up and
\* its resolve values are waiting for handleClick's continuation.
SaveJustRan == status = "saving" /\ resolved # <<>>

Msg == toast[1].msg

\* The node ids a toast text names.
OffendingNodeIds(msg) == IF "ids" \in DOMAIN msg THEN msg.ids ELSE <<>>

Failed(text) ==
    /\ resolved = << FALSE >>
    /\ toast # None
    /\ toast[1].type = "error"
    /\ Msg.text = text

(***************************************************************************)
(* C1.  Referential integrity: in every state reached from the seed graph  *)
(* by drops, deletions, connection attempts, edge removals and relabels,   *)
(* the source and the target of every edge are ids of current nodes.       *)
(***************************************************************************)
C1_ReferentialIntegrity ==
    \A i \in DOMAIN edges :
        edges[i].source \in NodeIdSet /\ edges[i].target \in NodeIdSet

\* A node has been deleted and an edge is still there.
C1_Witness == Len(nodes) < uid - 1 /\ Len(edges) > 0

(***************************************************************************)
(* C2.  With every edge created by an accepted connection attempt, no node *)
(* is the source of more than one edge, and save validation cannot fail    *)
(* for "more than one outgoing connection".                                *)
(***************************************************************************)
C2_AtMostOneOutgoing ==
    /\ \A id \in NodeIdSet : OutDegree(id) <= 1
    /\ \A i \in DOMAIN handleSave(nodes, edges) :
          handleSave(nodes, edges)[i].toast.msg.text
              # "have more than one outgoing connection"

\* Every node drives an edge, and a further attempt has been turned down.
C2_Witness ==
    /\ Len(nodes) = 3
    /\ \A id \in NodeIdSet : OutDegree(id) = 1
    /\ lastOp = "connectRejected"

(***************************************************************************)
(* C3.  For every edge set E and every node n, isValidConnection(E, n, n)  *)
(* is false, E empty included.                                             *)
(***************************************************************************)
C3_NoSelfLoop ==
    \A n \in SnapIdSet : ~isValidConnection(edges, [source |-> n, target |-> n])

\* With no edge at all, the only attempts turned down are self-loops.
C3_Witness == edges = <<>> /\ lastOp = "connectRejected"

(***************************************************************************)
(* C4.  For every edge set E holding an edge with source s,                *)
(* isValidConnection(E, s, t) is false for every target t, the existing    *)
(* edge's target included.                                                 *)
(***************************************************************************)
C4_SecondOutgoingRejected ==
    \A i \in DOMAIN edges : \A t \in SnapIdSet :
        ~isValidConnection(edges, [source |-> edges[i].source, target |-> t])

\* Every node drives an edge already, and an attempt has been turned down.
C4_Witness ==
    /\ \A id \in NodeIdSet : OutDegree(id) >= 1
    /\ lastOp = "connectRejected"

(***************************************************************************)
(* C5.  isValidConnection(E, s, t) is true whenever s differs from t and   *)
(* no edge of E has source s, however many edges of E have target t; and   *)
(* the result is the same with the self-loop check evaluated before the    *)
(* outgoing check.                                                         *)
(***************************************************************************)
\* The policy with its two checks in the other order.
isValidConnectionSelfLoopFirst(eds, connection) ==
    IF connection.source = connection.target THEN FALSE
    ELSE IF \E i \in DOMAIN eds : eds[i].source = connection.source THEN FALSE
    ELSE TRUE

C5_AcceptedOtherwise ==
    \A s \in SnapIdSet, t \in SnapIdSet :
        LET connection == [source |-> s, target |-> t]
        IN  /\ (s # t /\ OutDegree(s) = 0) => isValidConnection(edges, connection)
            /\ isValidConnection(edges, connection)
                   = isValidConnectionSelfLoopFirst(edges, connection)

\* A connection has been accepted into a target that had an incoming edge.
C5_Witness ==
    /\ lastOp = "connected"
    /\ \E id \in NodeIdSet : InDegree(id) >= 2

(***************************************************************************)
(* C6.  A connection attempt that isValidConnection turns down creates no  *)
(* edge and leaves nodes, edges, focus and id counter as they were.        *)
(* Stated by contraposition: a connection attempt (the only step that ends *)
(* "connected" or "connectRejected") that changes any of them is one that  *)
(* isValidConnection accepted.                                             *)
(***************************************************************************)
C6_RejectedConnectionChangesNothing ==
    [][(lastOp' \in {"connected", "connectRejected"} /\ graphVars' # graphVars) =>
          \A s \in NodeIdSet, t \in NodeIdSet :
              ConnectAttempt(s, t)
                  => isValidConnection(edges, [source |-> s, target |-> t])]_vars

C6_Witness == lastOp = "connectRejected" /\ Len(edges) > 0

(***************************************************************************)
(* C7.  Save validation of an empty node set fails, whatever the edges,    *)
(* with the empty-canvas reason and no node ids.                           *)
(***************************************************************************)
C7_EmptyGraphFails ==
    (SaveJustRan /\ Len(nodes) = 0)
        => /\ Failed("Canvas is empty")
           /\ OffendingNodeIds(Msg) = <<>>

\* Saved with no node, and edges of which two share a source.
C7_Witness ==
    /\ SaveJustRan
    /\ Len(nodes) = 0
    /\ \E i, j \in DOMAIN edges : i # j /\ edges[i].source = edges[j].source

(***************************************************************************)
(* C8.  On a non-empty snapshot in which some node is the source of more   *)
(* than one edge, validation fails with the multiple-outgoing reason and   *)
(* names exactly the nodes of out-degree above 1, in node insertion order. *)
(***************************************************************************)
C8_MultiOutgoingReported ==
    (SaveJustRan /\ Len(nodes) > 0 /\ Offenders # {})
        => /\ Failed("have more than one outgoing connection")
           /\ LET ids == OffendingNodeIds(Msg)
              IN  /\ Range(ids) = Offenders
                  /\ \A i, j \in DOMAIN ids :
                        i < j => Position(ids[i]) < Position(ids[j])

\* Two offenders, inserted in the order "2", "1".
C8_Witness ==
    /\ SaveJustRan
    /\ Len(nodes) = 2
    /\ nodes[1].id = "2"
    /\ Cardinality(Offenders) = 2

(***************************************************************************)
(* C9.  On a snapshot of more than one node, none of out-degree above 1,   *)
(* with N > 1 nodes that no edge targets, validation fails and the reason  *)
(* carries N.  The specification adds that the verdict names those N nodes.*)
(***************************************************************************)
C9_Case ==
    /\ SaveJustRan
    /\ Len(nodes) > 1
    /\ Offenders = {}
    /\ Cardinality(Roots) > 1

C9_Original ==
    C9_Case
        => /\ Failed("nodes have no incoming connections")
           /\ Msg.count = Cardinality(Roots)
           /\ Range(OffendingNodeIds(Msg)) = Roots

\* As amended: the reason carries N and names no node.
C9_RootCountReported ==
    C9_Case
        => /\ Failed("nodes have no incoming connections")
           /\ Msg.count = Cardinality(Roots)
           /\ OffendingNodeIds(Msg) = <<>>

\* Two nodes and no edge.
C9_Witness == C9_Case /\ Len(nodes) = 2 /\ edges = <<>>

C11_Case ==
    /\ SaveJustRan
    /\ Len(nodes) >= 2
    /\ Roots = {}
    /\ Offenders = {}

AllocatableIds == {ToString(k) : k \in 1..MaxUid}

EdgePosition(e) == CHOOSE i \in DOMAIN edges : edges[i] = e

\* The step has taken x, and the edges at x, out of the graph.
C12_RemovedExactly(x) ==
    /\ Len(nodes') = Len(nodes) - 1
    /\ \A i \in DOMAIN nodes' :
          nodes'[i] = nodes[IF i < Position(x) THEN i ELSE i + 1]
    /\ Range(edges') = {e \in Range(edges) : e.source # x /\ e.target # x}
    /\ \A i, j \in DOMAIN edges' :
          i < j => EdgePosition(edges'[i]) < EdgePosition(edges'[j])

\* The graph is a, b and a -> b, and x is b.
C12_ChainEnd(x) ==
    /\ Len(nodes) = 2
    /\ Len(edges) = 1
    /\ edges[1].target = x
    /\ edges[1].source # x

C12_RemoveNodeCascades ==
    /\ [](\A x \in AllocatableIds \ NodeIdSet :
             /\ removeNode(nodes, x) = nodes
             /\ removeConnectedEdges(edges, x) = edges)
    /\ [][lastOp' = "nodeDeleted" =>
            \A x \in NodeIdSet :
                DeleteKeyNode(x)
                    => /\ C12_RemovedExactly(x)
                       /\ C12_ChainEnd(x)
                             => handleSave(nodes', edges') = << pass(savedMsg(nodes', edges')) >>]_vars

\* The seed node is what is left of the seed node, one dropped node and an
\* edge between them.
C12_Witness ==
    /\ lastOp = "nodeDeleted"
    /\ uid = FirstUid + 1
    /\ Ids(nodes) = << "1" >>
    /\ edges = <<>>
    /\ handleSave(nodes, edges)[1].resolve

(***************************************************************************)
(* C19.  Node ids are unique and never reused: the ids of the nodes are    *)
(* pairwise distinct and all were handed out before (the seed's 1, the     *)
(* counter from 2 on); the counter never goes back; and a node that enters *)
(* the graph carries the counter's value, above every id handed out before *)
(* it, those of deleted nodes included.                                    *)
(***************************************************************************)
IdNumber(id) == CHOOSE k \in 1..MaxUid : ToString(k) = id

\* The numbers handed out so far: the seed's and the counter's.
Allocated == 1..(uid - 1)

C19_IdsUniqueNeverReused ==
    /\ [](\A i, j \in DOMAIN nodes : i # j => nodes[i].id # nodes[j].id)
    /\ [](\A id \in NodeIdSet : id \in AllocatableIds /\ IdNumber(id) \in Allocated)
    /\ [][/\ uid' >= uid
           /\ \A id \in NodeIdSet' \ NodeIdSet :
                 /\ id \in AllocatableIds
                 /\ \A k \in Allocated : IdNumber(id) > k
                 /\ uid' > IdNumber(id)]_vars

\* Nodes 1 and 2 are gone and node 3 is there.
C19_Witness ==
    /\ uid = FirstUid + 2
    /\ Ids(nodes) = << "3" >>

AttemptStarts == status = "idle" /\ status' = "saving"

AttemptEnds == status = "saving" /\ status' \in {"success", "error"}

C14_SaveLeavesGraphAlone ==
    [][(AttemptStarts \/ AttemptEnds) =>
          /\ nodes' = nodes
          /\ edges' = edges
          /\ selectedNode' = selectedNode
          /\ uid' = uid
          /\ AttemptStarts => toast' # None]_vars

\* An attempt is over and its toast is up, with a node focused and edges in
\* the graph.
C14_Witness ==
    /\ status \in {"success", "error"}
    /\ toast # None
    /\ toast[1].type = status
    /\ selectedNode # None
    /\ Len(edges) > 0

(***************************************************************************)
(* C15.  Every save attempt calls resolve exactly once, with true when the *)
(* validation passed and false when it failed: while the button is         *)
(* "saving" exactly one value has been resolved, it is the verdict the     *)
(* toast shows, and the attempt has started exactly one toast.             *)
(***************************************************************************)
C15_ResolvedExactlyOnce ==
    /\ [](status = "saving" =>
             /\ Len(resolved) = 1
             /\ toast # None
             /\ resolved[1] = (toast[1].type = "success"))
    /\ [](status # "saving" => resolved = <<>>)
    /\ [][(status = "idle" /\ status' = "saving") =>
              toastTimers' = toastTimers + 1]_vars

\* The attempt on the empty canvas has resolved false, once.
C15_Witness ==
    /\ status = "saving"
    /\ Len(nodes) = 0
    /\ resolved = << FALSE >>
    /\ toastTimers = 1

(***************************************************************************)
(* C16.  No save attempt starts while the button is not idle: in the       *)
(* status saving, success or error no step calls the validation (no toast  *)
(* is started, nothing is resolved, the button does not turn to saving), a *)
(* click the button ignores changes nothing, and at most one attempt is    *)
(* under way: one resolved value at most, one reset timer at most, and a   *)
(* reset timer exactly while the button shows success or error.            *)
(***************************************************************************)
C16_OneAttemptAtATime ==
    /\ [](/\ Len(resolved) <= 1
          /\ resetTimers <= 1
          /\ (resetTimers = 1) = (status \in {"success", "error"}))
    /\ [][status # "idle" =>
              /\ toastTimers' <= toastTimers
              /\ Len(resolved') <= Len(resolved)
              /\ status' = "saving" => status = "saving"]_vars
    /\ [][lastOp' = "clickIgnored" =>
              /\ status # "idle"
              /\ graphVars' = graphVars
              /\ saveVars' = saveVars]_vars

\* A click has been ignored while the button showed the failure of an
\* attempt.
C16_Witness ==
    /\ lastOp = "clickIgnored"
    /\ status = "error"
    /\ resetTimers = 1

(***************************************************************************)
(* C17.  The button status changes only along idle -> saving ->            *)
(* (success | error) -> idle: never from saving straight to idle, never    *)
(* between success and error, and it leaves idle only by a click, the step *)
(* that runs the validation.                                               *)
(***************************************************************************)
C17_Transitions ==
    {<< "idle", "saving" >>, << "saving", "success" >>, << "saving", "error" >>,
     << "success", "idle" >>, << "error", "idle" >>}

C17_StatusCycle ==
    /\ [](status \in {"idle", "saving", "success", "error"})
    /\ [][status' # status =>
              /\ << status, status' >> \in C17_Transitions
              /\ status = "idle" =>
                    /\ resolved' # <<>>
                    /\ toast' # None
                    /\ toastTimers' = toastTimers + 1]_vars

\* The button is back to idle after an attempt, whose toast is still up.
C17_Witness ==
    /\ status = "idle"
    /\ resetTimers = 0
    /\ toastTimers = 1
    /\ toast # None

(***************************************************************************)
(* C18.  A validation failure is never dropped silently: when an attempt   *)
(* ends, its toast is up; on a graph that fails validation the toast is an *)
(* error toast with the reason of the failure and the button turns to      *)
(* error, on a graph that passes the toast is a success toast and the      *)
(* button turns to success; toast type and button status agree.            *)
(***************************************************************************)
C18_FailureReason ==
    IF Len(nodes) = 0 THEN "Canvas is empty"
    ELSE IF Offenders # {} THEN "have more than one outgoing connection"
    ELSE IF Len(nodes) > 1 /\ Cardinality(Roots) > 1
         THEN "nodes have no incoming connections"
    ELSE "none"

C18_FailureShown ==
    [][AttemptEnds =>
          /\ toast' # None
          /\ toast'[1].type = status'
          /\ (status' = "error") = (C18_FailureReason # "none")
          /\ status' = "error" => toast'[1].msg.text = C18_FailureReason
          /\ status' = "success" => toast'[1].msg.text = "Flow saved!"]_vars

\* The button shows the failure of an attempt on a graph with several
\* roots, and the toast says so.
C18_Witness ==
    /\ status = "error"
    /\ resetTimers = 1
    /\ toast # None
    /\ toast[1].type = "error"
    /\ Msg.text = "nodes have no incoming connections"

(***************************************************************************)
(* C20.  Whenever a node is focused and the node array holds a node with   *)
(* the focused id, the label the settings panel shows (the label of the    *)
(* focused copy) is that node's current label; so it is right after the    *)
(* focused node has been relabelled, inline or from the panel.             *)
(***************************************************************************)
\* SettingsPanel's textarea: value={selectedNode.data.label}
FocusedLabelShown == selectedNode[1].data.label

C20_FocusedLabelInSync ==
    selectedNode # None =>
        \A i \in DOMAIN nodes :
            nodes[i].id = selectedNode[1].id
                => FocusedLabelShown = nodes[i].data.label

\* A dropped node is focused and shows the label it was given after the
\* drop.
C20_Witness ==
    /\ selectedNode # None
    /\ selectedNode[1].id = "2"
    /\ "2" \in NodeIdSet
    /\ FocusedLabelShown = ""

(***************************************************************************)
(* C21.  Focus never goes stale on deletion: in every reachable state the  *)
(* focus is none or the id of a node of the node array.  The delete key    *)
(* goes through onNodesChange only, which does not touch selectedNode, so  *)
(* the statement fails once the focused node is deleted.                   *)
(***************************************************************************)
C21_FocusNeverStale ==
    selectedNode # None => selectedNode[1].id \in NodeIdSet

(***************************************************************************)
(* C22.  Relabelling the node with id x to any text changes the label of   *)
(* that node only: node ids, node order, the other nodes, the edges and    *)
(* the focused id stay; and when no node has id x nothing changes at all,  *)
(* the label the settings panel shows included.  The last part fails in a  *)
(* state C21 lets in: the panel, still open on a deleted node, relabels    *)
(* the focused copy.                                                       *)
(***************************************************************************)
C22_OnlyTheLabel(x, l) ==
    /\ Ids(nodes') = Ids(nodes)
    /\ \A i \in DOMAIN nodes :
          IF nodes[i].id = x
          THEN nodes'[i] = [nodes[i] EXCEPT !.data = [label |-> l]]
          ELSE nodes'[i] = nodes[i]
    /\ edges' = edges
    /\ (selectedNode' = None) = (selectedNode = None)
    /\ selectedNode # None => selectedNode'[1].id = selectedNode[1].id

C22_RelabelFrame ==
    [][\A x \in AllocatableIds, l \in Labels :
          (onNodeDataChange(x, l) /\ UNCHANGED <<edges, uid>>)
              => /\ C22_OnlyTheLabel(x, l)
                 /\ x \notin NodeIdSet
                       => /\ nodes' = nodes
                          /\ selectedNode' = selectedNode]_vars

(***************************************************************************)
(* C23.  Removing an edge by its id (a double click on the edge) removes   *)
(* exactly the edge with that id and leaves every other edge, in order,    *)
(* every node and the focus as they were; removing an id no edge has       *)
(* changes nothing; and after the removal a connection from the former     *)
(* source to any other node is accepted again.                             *)
(***************************************************************************)
\* The ids of all the edges there can be.
AllEdgeIds ==
    {getEdgeId([source |-> a, target |-> b]) : a \in AllocatableIds, b \in AllocatableIds}

C23_RemovedExactly(e) ==
    /\ Len(edges') = Len(edges) - 1
    /\ \A i \in DOMAIN edges' :
          edges'[i] = edges[IF i < EdgePosition(e) THEN i ELSE i + 1]
    /\ nodes' = nodes
    /\ selectedNode' = selectedNode
    /\ uid' = uid
    /\ \A t \in NodeIdSet \ {e.source} :
          isValidConnection(edges', [source |-> e.source, target |-> t])

C27_Passes(nds, eds) == handleSave(nds, eds)[1].resolve

\* x feeds a node that nothing else feeds, and some other node is a root.
C27_Bridge(x) ==
    \E q \in NodeIdSet \ {x}, r \in NodeIdSet \ {x} :
        /\ q # r
        /\ InDegree(r) = 0
        /\ {edges[i].source : i \in {j \in DOMAIN edges : edges[j].target = q}} = {x}

C27_DeletionBreaksValidity ==
    [][lastOp' = "nodeDeleted" =>
          \A x \in NodeIdSet :
              (DeleteKeyNode(x) /\ C27_Passes(nodes, edges) /\ C27_Bridge(x))
                  => /\ ~C27_Passes(nodes', edges')
                     /\ handleSave(nodes', edges')[1].toast.msg.text
                            = "nodes have no incoming connections"]_vars

\* The chain 1 -> 2 -> 3 passes, and without node 2 what is left fails.
C27_Witness ==
    /\ Ids(nodes) = << "1", "2", "3" >>
    /\ {<< e.source, e.target >> : e \in Range(edges)} = {<< "1", "2" >>, << "2", "3" >>}
    /\ C27_Passes(nodes, edges)
    /\ ~C27_Passes(removeNode(nodes, "2"), removeConnectedEdges(edges, "2"))

(***************************************************************************)
(* C24.  Adding an edge whose source or target is not the id of a current  *)
(* node is rejected and leaves nodes and edges as they were, whether or    *)
(* not isValidConnection was asked first.  onConnect hands the ids to      *)
(* addEdge, which looks at the edges only: the statement fails.            *)
(***************************************************************************)
C24_InvalidReferenceRejected ==
    [][\A s \in SnapIdSet, t \in SnapIdSet :
          (onConnectDirect(s, t) /\ ~({s, t} \subseteq NodeIdSet))
              => /\ nodes' = nodes
                 /\ edges' = edges]_vars

(***************************************************************************)
(* C25.  Every flow of more than one node that passes save validation is a *)
(* connected directed graph with exactly one root: one node and no more    *)
(* has no incoming edge, and every other node is reached from it along the *)
(* edges.  handleSave counts the nodes without incoming edge and fails for *)
(* more than one only: a flow with no root, or with a cycle beside the     *)
(* rooted part, passes, and the statement fails.                           *)
(***************************************************************************)
\* The nodes reached from the nodes of S along the edges, S included.
RECURSIVE C25_ReachedFrom(_)
C25_ReachedFrom(S) ==
    LET next == S \cup {edges[i].target : i \in {j \in DOMAIN edges : edges[j].source \in S}}
    IN  IF next = S THEN S ELSE C25_ReachedFrom(next)

C25_SavedFlowHasOneRoot ==
    (SaveJustRan /\ resolved = << TRUE >> /\ Len(nodes) > 1)
        => \E r \in NodeIdSet :
              /\ Roots = {r}
              /\ NodeIdSet \subseteq C25_ReachedFrom({r})

(***************************************************************************)
(* C26.  The checks run in a fixed order, empty canvas, out-degree, root   *)
(* count, and the first that fails gives the verdict: a snapshot with a    *)
(* node of out-degree above 1 and with more than one node without an       *)
(* incoming edge fails with the multiple-outgoing reason and names the     *)
(* nodes of out-degree above 1; the root-count reason is not shown, before *)
(* or after.                                                               *)
(***************************************************************************)
C26_Case ==
    /\ SaveJustRan
    /\ Offenders # {}
    /\ Cardinality(Roots) > 1

C26_FirstFailingCheckWins ==
    C26_Case
        => /\ Failed("have more than one outgoing connection")
           /\ Range(OffendingNodeIds(Msg)) = Offenders
           /\ toastTimers = 1

\* Node 1 feeds nodes 2 and 3 while nodes 1 and 4 have no incoming edge.
C26_Witness ==
    /\ C26_Case
    /\ Offenders = {"1"}
    /\ Roots = {"1", "4"}

(***************************************************************************)
(* C28.  A toast is dismissed only by the timer that was started for it:   *)
(* the timer of an earlier save attempt never clears the toast of a later  *)
(* one.  Timers fire in the order they were started and the toast that is  *)
(* up is the last one shown, so a toast cleared by its own timer is        *)
(* cleared with no other timer pending.  showToast never cancels a timer,  *)
(* and the statement fails.                                                *)
(***************************************************************************)
C28_ToastClearedByOwnTimer ==
    [][(toast # None /\ toast' = None) => toastTimers = 1]_vars

(***************************************************************************)
(* C29.  A drop creates a node only when the drag carried a node type, and *)
(* only available palette cards write one: a drop without a type leaves    *)
(* nodes, edges, focus and id counter as they were, a node that enters the *)
(* graph has the type of an available card, and every node of every        *)
(* reachable state has type textNode.                                      *)
(***************************************************************************)
AvailableTypes == {card.type : card \in {c \in Range(NODE_TYPES) : c.available}}

C29_OnlyAvailableTypesDropped ==
    /\ [](\A i \in DOMAIN nodes : nodes[i].type = "textNode")
    /\ [][lastOp' = "dropIgnored" => graphVars' = graphVars]_vars
    /\ [][Len(nodes') > Len(nodes) =>
              /\ Len(nodes') = Len(nodes) + 1
              /\ SubSeq(nodes', 1, Len(nodes)) = nodes
              /\ nodes'[Len(nodes')].type \in AvailableTypes
              /\ uid' = uid + 1]_vars

\* A drag from an unavailable card has been dropped on a graph of two
\* nodes and an edge.
C29_Witness ==
    /\ lastOp = "dropIgnored"
    /\ Len(nodes) = 2
    /\ Len(edges) = 1

(***************************************************************************)
(* C30.  Saving is always possible again in the end: with the promise's    *)
(* continuation and the reset timer scheduled fairly, whenever the button  *)
(* is saving it later shows success or error, and whenever it is not idle  *)
(* it is later idle, whatever the verdict; it never stays in saving.       *)
(***************************************************************************)
C30_EventuallyIdleAgain ==
    /\ (status = "saving") ~> (status \in {"success", "error"})
    /\ (status # "idle") ~> (status = "idle")

\* The button is idle again after an attempt, whose toast is gone too.
C30_Witness ==
    /\ status = "idle"
    /\ lastOp = "done"
    /\ toast = None
    /\ toastTimers = 0
    /\ resetTimers = 0
====
